---- MODULE Spec2Model ----
(***************************************************************************)
(* Model of app.js: a Node.js HTTP server.                                 *)
(*                                                                         *)
(*   const PORT = process.env.PORT || 3000;                                *)
(*   const server = http.createServer((req, res) => { res.end('Hello..') });*)
(*   server.listen(PORT, () => { console.log(`Server running on port ..`) });*)
(*                                                                         *)
(* Two instances of the program run on one host and share the host's       *)
(* address space (TCP ports and local socket paths).  Strings are          *)
(* sequences of one-character strings, so that the conversions the program *)
(* relies on (string to number in listen, value to string in the template  *)
(* literal) are computed rather than assumed.                              *)
(***************************************************************************)
EXTENDS Integers, Sequences, FiniteSets

VARIABLES env, pc, PORT, listenArg, handle, err, exitCode, console,
          conns, wire

vars == <<env, pc, PORT, listenArg, handle, err, exitCode, console,
          conns, wire>>

(* ------------------------------ bounds --------------------------------- *)

\* Number of client connections (one request each) the model follows.
MaxConn == 2

Instances == {1, 2}
Conns == 1..MaxConn

(* ------------------------- JavaScript values --------------------------- *)

Undefined == [type |-> "undefined"]
Str(s) == [type |-> "string", str |-> s]
Num(n) == [type |-> "number", num |-> n]

\* The number 3000 on the right of || in line 2.
DefaultPort == 3000

\* process.env.PORT: absent, or a string.
Absent == [set |-> FALSE, val |-> <<>>]
Set(s) == [set |-> TRUE, val |-> s]

EnvValues ==
  { Absent,
    Set(<<>>),
    Set(<<"0">>),
    Set(<<"8","0","8","0">>),
    Set(<<"3","0","0","0">>),
    Set(<<"8","0">>),
    Set(<<"0","x","5","0">>),
    Set(<<"-","1">>),
    Set(<<"z","z">>),
    Set(<<"7","0","0","0","0">>) }

\* The values that decide how a bind ends: the default port, a port chosen
\* by the host, a privileged port, a local socket path and a port out of
\* range.
LiveEnvValues ==
  { Absent,
    Set(<<"0">>),
    Set(<<"8","0">>),
    Set(<<"-","1">>),
    Set(<<"7","0","0","0","0">>) }

\* process.env.PORT as a JavaScript value.
GetEnv(e) == IF e.set THEN Str(e.val) ELSE Undefined

\* Faulty variant of Truthy: the string is converted to a number first, so
\* "0" counts as falsy (as it would after parseInt or Number).
TruthyNumeric(v) ==
  CASE v.type = "undefined" -> FALSE
    [] v.type = "string"    -> Len(v.str) > 0 /\ v.str # <<"0">>
    [] v.type = "number"    -> v.num # 0

\* ToBoolean: undefined and the empty string are falsy, every other string
\* (the string "0" included) and every non-zero number is truthy.
Truthy(v) ==
  CASE v.type = "undefined" -> FALSE
    [] v.type = "string"    -> Len(v.str) > 0
    [] v.type = "number"    -> v.num # 0

\* a || b
Or(a, b) == IF Truthy(a) THEN a ELSE b

\* Faulty variant of EvalPORT: ?? in place of ||, which keeps the empty
\* string.
EvalPORTNullish(e) == IF e.set THEN Str(e.val) ELSE Num(DefaultPort)

\* const PORT = process.env.PORT || 3000
EvalPORT(e) == Or(GetEnv(e), Num(DefaultPort))

(* ----------------------- string <-> number ----------------------------- *)

DecDigits == <<"0","1","2","3","4","5","6","7","8","9">>
HexDigits == DecDigits \o <<"a","b","c","d","e","f">>

IsDec(ch) == \E k \in 1..Len(DecDigits) : DecDigits[k] = ch
IsHex(ch) == \E k \in 1..Len(HexDigits) : HexDigits[k] = ch
DigitVal(ch) == (CHOOSE k \in 1..Len(HexDigits) : HexDigits[k] = ch) - 1

AllDec(s) == \A k \in 1..Len(s) : IsDec(s[k])
AllHex(s) == \A k \in 1..Len(s) : IsHex(s[k])

RECURSIVE ParseRadix(_, _)
ParseRadix(s, radix) ==
  IF Len(s) = 0 THEN 0
  ELSE ParseRadix(SubSeq(s, 1, Len(s) - 1), radix) * radix + DigitVal(s[Len(s)])

RECURSIVE TrimLeft(_)
TrimLeft(s) ==
  IF Len(s) > 0 /\ s[1] = " " THEN TrimLeft(Tail(s)) ELSE s

RECURSIVE TrimRight(_)
TrimRight(s) ==
  IF Len(s) > 0 /\ s[Len(s)] = " "
  THEN TrimRight(SubSeq(s, 1, Len(s) - 1)) ELSE s

Trim(s) == TrimRight(TrimLeft(s))

NaN == [nan |-> TRUE, n |-> 0]
Finite(n) == [nan |-> FALSE, n |-> n]

\* Number(string) for strings over digits, "x", "-", "+", blanks and letters:
\* blanks are trimmed, the empty string is 0, "0x" introduces hexadecimal
\* digits, a sign may precede decimal digits, anything else is NaN.
StringToNumber(s) ==
  LET t == Trim(s) IN
  IF Len(t) = 0 THEN Finite(0)
  ELSE IF Len(t) > 2 /\ t[1] = "0" /\ t[2] = "x" /\ AllHex(SubSeq(t, 3, Len(t)))
       THEN Finite(ParseRadix(SubSeq(t, 3, Len(t)), 16))
  ELSE IF AllDec(t) THEN Finite(ParseRadix(t, 10))
  ELSE IF Len(t) > 1 /\ t[1] = "-" /\ AllDec(Tail(t))
       THEN Finite(0 - ParseRadix(Tail(t), 10))
  ELSE IF Len(t) > 1 /\ t[1] = "+" /\ AllDec(Tail(t))
       THEN Finite(ParseRadix(Tail(t), 10))
  ELSE NaN

\* Number(v) for the values listen receives.
ToNumber(v) == IF v.type = "number" THEN Finite(v.num) ELSE StringToNumber(v.str)

\* String(n) for a non-negative integer.
RECURSIVE NumberToString(_)
NumberToString(n) ==
  IF n < 10 THEN <<DecDigits[n + 1]>>
  ELSE NumberToString(n \div 10) \o <<DecDigits[(n % 10) + 1]>>

\* ${v} in a template literal.
ToString(v) == IF v.type = "number" THEN NumberToString(v.num) ELSE v.str

(* ------------------------------ listen --------------------------------- *)

NoHandle == [kind |-> "none"]
TcpAddr(p) == [kind |-> "tcp", port |-> p]
PipeAddr(path) == [kind |-> "pipe", path |-> path]

\* Ports the host hands out when asked to bind port 0.
Ephemeral == {32768, 32769}

\* listen(x): a string that is not a non-negative number names a local
\* socket (a path), anything else is a port.
IsPipeName(v) ==
  /\ v.type = "string"
  /\ (ToNumber(v).nan \/ ToNumber(v).n < 0)

\* listen(port) throws ERR_SOCKET_BAD_PORT unless port is an integer in
\* 0..65535 (a blank string is refused although Number(" ") is 0).
BadPort(v) ==
  \/ (v.type = "string" /\ Len(Trim(v.str)) = 0)
  \/ ToNumber(v).nan
  \/ ToNumber(v).n < 0
  \/ ToNumber(v).n > 65535

\* An address is held by the running process that bound it.
InUse(addr) == \E j \in Instances : handle[j] = addr

Bound(a) == [kind |-> "bound", handle |-> a, err |-> "none"]
Failed(e) == [kind |-> "failed", handle |-> NoHandle, err |-> e]
Thrown(e) == [kind |-> "thrown", handle |-> NoHandle, err |-> e]

\* What server.listen(v) can do in the current state of the host.  Whether
\* the process may bind a port below 1024 depends on its privileges, which
\* the program does not control: both outcomes are possible.
ListenOutcomes(v) ==
  IF IsPipeName(v) THEN
    IF InUse(PipeAddr(v.str)) THEN {Failed("EADDRINUSE")}
    ELSE {Bound(PipeAddr(v.str))}
  ELSE IF BadPort(v) THEN {Thrown("ERR_SOCKET_BAD_PORT")}
  ELSE LET n == ToNumber(v).n IN
    IF n = 0 THEN
      IF \A p \in Ephemeral : InUse(TcpAddr(p)) THEN {Failed("EADDRINUSE")}
      ELSE {Bound(TcpAddr(p)) : p \in {q \in Ephemeral : ~InUse(TcpAddr(q))}}
    ELSE LET bind == IF InUse(TcpAddr(n)) THEN Failed("EADDRINUSE")
                     ELSE Bound(TcpAddr(n))
         IN IF n < 1024 THEN {Failed("EACCES"), bind} ELSE {bind}

(* ----------------------------- requests -------------------------------- *)

Requests ==
  { [method |-> "GET",  path |-> "/", headers |-> "", body |-> ""],
    [method |-> "POST", path |-> "/anything/path?query=1",
     headers |-> "Content-Type: text/plain", body |-> "arbitrary"] }

NoReq == [method |-> "", path |-> "", headers |-> "", body |-> ""]
NoRes == [status |-> 0, body |-> ""]
Idle == [state |-> "none", to |-> 0, req |-> NoReq, res |-> NoRes]

Hello == "Hello from Multi-Stage Node.js Build!"

\* Faulty variant of Handler: only "/" is served, other paths get 404.
HandlerRouted(req) ==
  IF req.path = "/" THEN [status |-> 200, body |-> Hello]
  ELSE [status |-> 404, body |-> "Not Found"]

\* (req, res) => { res.end('Hello from Multi-Stage Node.js Build!') }
\* statusCode is left at its default, 200.
Handler(req) == [status |-> 200, body |-> Hello]

\* `Server running on port ${PORT}`
StartupLine(v) == [text |-> "Server running on port ", port |-> ToString(v)]

(* ------------------------------ state ---------------------------------- *)

Init ==
  /\ env \in [Instances -> EnvValues]
  /\ pc = [i \in Instances |-> "start"]
  /\ PORT = [i \in Instances |-> Undefined]
  /\ listenArg = [i \in Instances |-> Undefined]
  /\ handle = [i \in Instances |-> NoHandle]
  /\ err = [i \in Instances |-> "none"]
  /\ exitCode = [i \in Instances |-> 0]
  /\ console = [i \in Instances |-> <<>>]
  /\ conns = [c \in Conns |-> Idle]
  /\ wire = [c \in Conns |-> <<>>]

\* The module body, lines 1-10, runs to completion: PORT is evaluated, the
\* server is created and listen is called.  A throw from listen is an
\* uncaught exception: the process exits with status 1.
Main(i) ==
  /\ pc[i] = "start"
  /\ LET v == EvalPORT(env[i]) IN
     /\ PORT' = [PORT EXCEPT ![i] = v]
     /\ listenArg' = [listenArg EXCEPT ![i] = v]
     /\ \E o \in ListenOutcomes(v) :
          /\ handle' = [handle EXCEPT ![i] = o.handle]
          /\ err' = [err EXCEPT ![i] = o.err]
          /\ pc' = [pc EXCEPT ![i] =
                      CASE o.kind = "bound"  -> "bound"
                        [] o.kind = "failed" -> "failing"
                        [] o.kind = "thrown" -> "exited"]
          /\ exitCode' = [exitCode EXCEPT ![i] =
                            IF o.kind = "thrown" THEN 1 ELSE @]
  /\ UNCHANGED <<env, console, conns, wire>>

\* Faulty variant of EmitListening: the callback also closes the server.
EmitListeningClose(i) ==
  /\ pc[i] = "bound"
  /\ console' = [console EXCEPT ![i] = Append(@, StartupLine(PORT[i]))]
  /\ pc' = [pc EXCEPT ![i] = "running"]
  /\ handle' = [handle EXCEPT ![i] = NoHandle]
  /\ UNCHANGED <<env, PORT, listenArg, err, exitCode, conns, wire>>

\* 'listening' is emitted on the next tick and runs the callback of line 9.
EmitListening(i) ==
  /\ pc[i] = "bound"
  /\ console' = [console EXCEPT ![i] = Append(@, StartupLine(PORT[i]))]
  /\ pc' = [pc EXCEPT ![i] = "running"]
  /\ UNCHANGED <<env, PORT, listenArg, handle, err, exitCode, conns, wire>>

\* Faulty variant of EmitError: an 'error' listener that ends the process
\* with process.exit(), status 0.
EmitErrorExitZero(i) ==
  /\ pc[i] = "failing"
  /\ pc' = [pc EXCEPT ![i] = "exited"]
  /\ exitCode' = [exitCode EXCEPT ![i] = 0]
  /\ UNCHANGED <<env, PORT, listenArg, handle, err, console, conns, wire>>

\* A failed bind emits 'error' on the next tick; the server has no 'error'
\* listener, so the event is thrown and the process exits with status 1.
EmitError(i) ==
  /\ pc[i] = "failing"
  /\ pc' = [pc EXCEPT ![i] = "exited"]
  /\ exitCode' = [exitCode EXCEPT ![i] = 1]
  /\ UNCHANGED <<env, PORT, listenArg, handle, err, console, conns, wire>>

\* The process is terminated from outside (SIGTERM); the host releases
\* its socket.
Terminate(i) ==
  /\ pc[i] \in {"bound", "running", "failing"}
  /\ pc' = [pc EXCEPT ![i] = "exited"]
  /\ exitCode' = [exitCode EXCEPT ![i] = 143]
  /\ handle' = [handle EXCEPT ![i] = NoHandle]
  /\ UNCHANGED <<env, PORT, listenArg, err, console, conns, wire>>

\* A client connects to a listening instance and its request arrives.
Accept(c, i, r) ==
  /\ conns[c].state = "none"
  /\ pc[i] = "running"
  /\ conns' = [conns EXCEPT ![c] = [state |-> "pending", to |-> i,
                                    req |-> r, res |-> NoRes]]
  /\ UNCHANGED <<env, pc, PORT, listenArg, handle, err, exitCode,
                 console, wire>>

\* Faulty variant of Handle: the handler also logs the request.
HandleLogging(c) ==
  /\ conns[c].state = "pending"
  /\ pc[conns[c].to] = "running"
  /\ conns' = [conns EXCEPT ![c].state = "ended",
                            ![c].res = Handler(conns[c].req)]
  /\ console' = [console EXCEPT ![conns[c].to] =
                   Append(@, [text |-> conns[c].req.method,
                              port |-> <<>>])]
  /\ UNCHANGED <<env, pc, PORT, listenArg, handle, err, exitCode, wire>>

\* Faulty variant of Handle: the handler ends the response for GET only.
HandleGetOnly(c) ==
  /\ conns[c].state = "pending"
  /\ pc[conns[c].to] = "running"
  /\ conns[c].req.method = "GET"
  /\ conns' = [conns EXCEPT ![c].state = "ended",
                            ![c].res = Handler(conns[c].req)]
  /\ UNCHANGED <<env, pc, PORT, listenArg, handle, err, exitCode,
                 console, wire>>

\* The request handler of lines 4-6 runs for the request on connection c.
Handle(c) ==
  /\ conns[c].state = "pending"
  /\ pc[conns[c].to] = "running"
  /\ conns' = [conns EXCEPT ![c].state = "ended",
                            ![c].res = Handler(conns[c].req)]
  /\ UNCHANGED <<env, pc, PORT, listenArg, handle, err, exitCode,
                 console, wire>>

\* Faulty variant of Flush: the response object is shared, so the write goes
\* to the oldest connection that is still open.
FlushShared(c) ==
  /\ conns[c].state = "ended"
  /\ pc[conns[c].to] = "running"
  /\ LET d == CHOOSE x \in Conns :
                 /\ conns[x].state \in {"pending", "ended"}
                 /\ \A y \in Conns :
                      conns[y].state \in {"pending", "ended"} => x <= y
     IN wire' = [wire EXCEPT ![d] = Append(@, [conn |-> c,
                                               status |-> conns[c].res.status,
                                               body |-> conns[c].res.body])]
  /\ conns' = [conns EXCEPT ![c].state = "delivered"]
  /\ UNCHANGED <<env, pc, PORT, listenArg, handle, err, exitCode,
                 console>>

\* The ended response is written out on the connection it belongs to.
Flush(c) ==
  /\ conns[c].state = "ended"
  /\ pc[conns[c].to] = "running"
  /\ wire' = [wire EXCEPT ![c] = Append(@, [conn |-> c,
                                            status |-> conns[c].res.status,
                                            body |-> conns[c].res.body])]
  /\ conns' = [conns EXCEPT ![c].state = "delivered"]
  /\ UNCHANGED <<env, pc, PORT, listenArg, handle, err, exitCode,
                 console>>

Next ==
  \/ \E i \in Instances : Main(i)
  \/ \E i \in Instances : EmitListening(i)
  \/ \E i \in Instances : EmitError(i)
  \/ \E i \in Instances : Terminate(i)
  \/ \E c \in Conns, i \in Instances, r \in Requests : Accept(c, i, r)
  \/ \E c \in Conns : Handle(c)
  \/ \E c \in Conns : Flush(c)

Spec == Init /\ [][Next]_vars

\* The event loop runs every ready callback: a pending 'listening' or
\* 'error' event is emitted, a received request is handled and an ended
\* response is written, unless the process is terminated first.
Fairness ==
  /\ \A i \in Instances : WF_vars(EmitListening(i)) /\ WF_vars(EmitError(i))
  /\ \A c \in Conns : WF_vars(Handle(c)) /\ WF_vars(Flush(c))

\* The same program under a fair event loop, started with the values of
\* PORT that decide how the bind ends.
LiveInit == Init /\ env \in [Instances -> LiveEnvValues]

LiveSpec == LiveInit /\ [][Next]_vars /\ Fairness

\* Unbound -> Listening -> Stopped
Lifecycle(i) ==
  IF pc[i] = "exited" THEN "Stopped"
  ELSE IF handle[i] # NoHandle THEN "Listening"
  ELSE "Unbound"

(* ======================================================================= *)
(* Properties                                                              *)
(* ======================================================================= *)

Answered(c) == conns[c].state \in {"ended", "delivered"}
FixedResponse == [status |-> 200, body |-> "Hello from Multi-Stage Node.js Build!"]

\* C1: every request handled by a listening server, whatever its method,
\* path, headers and body, is answered with status 200 and exactly the body
\* "Hello from Multi-Stage Node.js Build!"; any two answered requests have
\* identical responses.
C1_FixedResponse ==
  /\ \A c \in Conns : Answered(c) => conns[c].res = FixedResponse
  /\ \A c \in Conns : \A k \in 1..Len(wire[c]) :
       wire[c][k].status = 200 /\ wire[c][k].body = FixedResponse.body
  /\ \A c, d \in Conns : Answered(c) /\ Answered(d) => conns[c].res = conns[d].res

\* Two requests that differ in every field have both been answered.
C1_Witness ==
  \E c, d \in Conns :
    /\ conns[c].state = "delivered" /\ conns[d].state = "delivered"
    /\ conns[c].req.method # conns[d].req.method
    /\ conns[c].req.path # conns[d].req.path
    /\ conns[c].req.body # conns[d].req.body

Started(i) == pc[i] # "start"
EnvEmpty(i) == ~env[i].set \/ env[i].val = <<>>

\* C2 as stated: a listener binds to the port that is the value of PORT
\* whenever PORT is set, and to port 3000 when PORT is not set.
C2_Original ==
  \A i \in Instances : handle[i] # NoHandle =>
    /\ handle[i].kind = "tcp"
    /\ env[i].set => StringToNumber(env[i].val) = Finite(handle[i].port)
    /\ ~env[i].set => handle[i].port = 3000

\* C2 amended: the value passed to listen is PORT itself when PORT is set
\* and not empty, and the number 3000 otherwise.  A listener is bound to
\* the TCP port that value denotes when it denotes an integer in 1..65535
\* (PORT=8080 binds 8080, no PORT binds 3000), to a port chosen by the host
\* when it denotes 0, and to a local socket path equal to the value when it
\* is not a non-negative number.
C2_Amended ==
  \A i \in Instances :
    /\ Started(i) =>
         listenArg[i] = IF EnvEmpty(i) THEN Num(3000) ELSE Str(env[i].val)
    /\ handle[i] # NoHandle =>
         LET n == ToNumber(listenArg[i]) IN
         /\ (~n.nan /\ n.n \in 1..65535) => handle[i] = TcpAddr(n.n)
         /\ (~n.nan /\ n.n = 0) =>
              handle[i].kind = "tcp" /\ handle[i].port \in Ephemeral
         /\ (n.nan \/ n.n < 0) => handle[i] = PipeAddr(env[i].val)
         /\ env[i] = Set(<<"8","0","8","0">>) => handle[i] = TcpAddr(8080)
         /\ ~env[i].set => handle[i] = TcpAddr(3000)

\* One instance started with PORT=8080 listens on 8080 while another
\* started without PORT listens on 3000.
C2_Witness ==
  \E i, j \in Instances :
    /\ env[i] = Set(<<"8","0","8","0">>) /\ handle[i] = TcpAddr(8080)
    /\ env[j] = Absent /\ handle[j] = TcpAddr(3000)

BindFailed(i) == err[i] # "none"

\* C3: once the bind has failed (address in use, no permission, or a
\* rejected port) the process is never Listening and serves no request; it
\* ends Stopped, with a non-zero exit status; and the steps of the failing
\* process leave every other instance's state and connections untouched.
C3_BindFailure ==
  /\ [](\A i \in Instances : BindFailed(i) =>
          /\ Lifecycle(i) # "Listening"
          /\ \A c \in Conns : conns[c].to # i
          /\ pc[i] = "exited" => exitCode[i] # 0)
  /\ \A i \in Instances : BindFailed(i) ~> (Lifecycle(i) = "Stopped")
  /\ [][\A j \in Instances :
          (BindFailed(j)' /\ pc'[j] # pc[j]) =>
             /\ \A i \in Instances \ {j} :
                  /\ pc'[i] = pc[i] /\ handle'[i] = handle[i]
                  /\ console'[i] = console[i] /\ exitCode'[i] = exitCode[i]
             /\ conns' = conns /\ wire' = wire]_vars

\* A second instance asked for the port the first one holds: it has exited
\* with status 1 and the first is still Listening on that port.
C3_Witness ==
  \E i, j \in Instances :
    /\ err[j] = "EADDRINUSE" /\ pc[j] = "exited" /\ exitCode[j] = 1
    /\ Lifecycle(i) = "Listening" /\ handle[i].kind = "tcp"
    /\ ToNumber(listenArg[j]) = Finite(handle[i].port)

\* C4: under every interleaving of the accept, handle and write steps of
\* the connections, each request gets at most one response and exactly one
\* once it is delivered, the response is the fixed one, and nothing is
\* written on a connection other than the response to its own request.
C4_Isolation ==
  \A c \in Conns :
    /\ Len(wire[c]) <= 1
    /\ conns[c].state = "delivered" <=> Len(wire[c]) = 1
    /\ \A k \in 1..Len(wire[c]) :
         /\ wire[c][k].conn = c
         /\ wire[c][k].status = conns[c].res.status
         /\ wire[c][k].body = Hello

\* One request has its response while another, sent to the same instance,
\* has been handled and is not yet written out.
C4_Witness ==
  \E c, d \in Conns :
    /\ c # d
    /\ conns[c].to = conns[d].to
    /\ conns[c].state = "delivered" /\ conns[d].state = "ended"

\* C5: an instance is Unbound, Listening or Stopped; Stopped is never left;
\* Listening is left only for Stopped, and only by the process exiting.
C5_Lifecycle ==
  [][\A i \in Instances :
       /\ Lifecycle(i) \in {"Unbound", "Listening", "Stopped"}
       /\ Lifecycle(i) = "Stopped" => Lifecycle(i)' = "Stopped"
       /\ Lifecycle(i) = "Listening" => Lifecycle(i)' \in {"Listening", "Stopped"}
       /\ (Lifecycle(i) = "Listening" /\ handle'[i] # handle[i]) => pc'[i] = "exited"
    ]_vars

\* An instance that was Listening (it wrote its startup line) has stopped.
C5_Witness ==
  \E i \in Instances : Lifecycle(i) = "Stopped" /\ Len(console[i]) = 1

\* C6 as stated: whenever an instance is Listening it is bound to a valid
\* TCP port number, whatever the value of PORT.
C6_ValidPort ==
  \A i \in Instances : Lifecycle(i) = "Listening" =>
    handle[i].kind = "tcp" /\ handle[i].port \in 1..65535

\* C7 as stated: the startup line is written at most once, only by a
\* process whose bind succeeded, and the port it reports is the port the
\* listener is bound to.
C7_StartupLine ==
  \A i \in Instances :
    /\ Len(console[i]) <= 1
    /\ Len(console[i]) = 1 => (~BindFailed(i) /\ pc[i] \in {"running", "exited"})
    /\ (Len(console[i]) = 1 /\ handle[i] # NoHandle) =>
         /\ handle[i].kind = "tcp"
         /\ StringToNumber(console[i][1].port) = Finite(handle[i].port)

\* C8: a step that receives, handles or answers a request changes nothing
\* but that request's connection: the lifecycle state, the bound address,
\* the console, the exit status and the other connections stay as they are.
C8_HandlerFrame ==
  [][(conns' # conns \/ wire' # wire) =>
       /\ UNCHANGED <<pc, handle, console, exitCode, err, PORT>>
       /\ \A i \in Instances : Lifecycle(i)' = Lifecycle(i)
       /\ \E c \in Conns : \A d \in Conns \ {c} :
            conns'[d] = conns[d] /\ wire'[d] = wire[d]
    ]_vars

\* A request has been answered by an instance that is still running.
C8_Witness ==
  \E c \in Conns :
    /\ conns[c].state = "delivered"
    /\ pc[conns[c].to] = "running"
    /\ Len(console[conns[c].to]) = 1

\* C9: under fair scheduling every accepted request is eventually
\* answered, unless the process that accepted it is terminated first.
C9_EventuallyAnswered ==
  \A c \in Conns :
    (conns[c].state = "pending") ~>
       (Answered(c) \/ \E i \in Instances :
                          conns[c].to = i /\ Lifecycle(i) = "Stopped")

\* Every connection has been answered by an instance that is still running.
C9_Witness ==
  \A c \in Conns : Answered(c) /\ pc[conns[c].to] = "running"

\* C10: listen receives the number 3000 exactly when PORT is absent or the
\* empty string; any other value of PORT, "0" included, is passed to listen
\* as the same string.
C10_Default ==
  \A i \in Instances : Started(i) =>
    /\ listenArg[i] = Num(DefaultPort) <=> EnvEmpty(i)
    /\ ~EnvEmpty(i) => listenArg[i].type = "string" /\ listenArg[i].str = env[i].val

\* An instance started with PORT=0 passed the string "0" to listen, and one
\* started with the empty string passed 3000.
C10_Witness ==
  \E i, j \in Instances :
    /\ env[i] = Set(<<"0">>) /\ listenArg[i] = Str(<<"0">>)
    /\ env[j] = Set(<<>>) /\ listenArg[j] = Num(3000)

====
